---- MODULE Spec2Model ----
(***************************************************************************)
(* EEPROManager<T>: a keyed, checksum-framed entry in a byte-addressable   *)
(* EEPROM, relocated forward when its write count reaches                  *)
(* EEPROM_MAX_WRITES.  The device is modelled byte by byte with the        *)
(* on-device layout of write():                                            *)
(*   key(2) | crc8(1) | write_count(4) | length(2) | T(sizeof T) | crc32(4)*)
(* 32-bit quantities are kept as their four little-endian bytes, which is  *)
(* also how they lie in the device.                                        *)
(***************************************************************************)
EXTENDS Integers, Sequences, FiniteSets, TLC

(* ------------------------------------------------------------------ *)
(* Sizes of the model                                                  *)
(* ------------------------------------------------------------------ *)

\* The managers a program may declare, and the key each is bound to.
AllMgrs == {1, 2}

\* Every manager bound to the default key.
KEYDefault(m) == 1

KEY(m) == IF m = 1 THEN 1 ELSE 258

\* Device capacities (EEPROM.length() of a started device).  The largest
\* is explored with a 4-byte record and a limit of 2 writes only.
Capacities == {16, 32, 64}

\* sizeof(T) of the bound record types.
RecordSizes == {3, 4}

\* Values EEPROM_MAX_WRITES is compiled with (the macro is overridable).
MaxWritesValues == {2, 3}

\* The EEPROM library the sketch is built against: "AVR" is the plain
\* EEPROM of the default build, "FLASH" the buffered flash emulation of the
\* BOARD_ESP / BOARD_RP2040 builds.
Boards == {"AVR", "FLASH"}

\* The byte a record is filled with: records are sizeof(T) equal bytes.
RecordFills == {1, 255}

\* update() calls are explored until the shadow write count has run this
\* far past EEPROM_MAX_WRITES; further where the puts per cell are counted.
MaxOverrun == 1

MaxWearOverrun == 3

\* A behaviour holds at most this many wipe() calls and power cycles.
MaxWipes == 1

MaxRestarts == 1

VARIABLES
    board,              \* which EEPROM library the build uses
    capacity,           \* number of bytes of the device
    EEPROM_MAX_WRITES,  \* the compiled-in write limit
    sizeofT,            \* sizeofT[m]: sizeof(T) of manager m's record type
    begun,              \* FLASH: EEPROM.begin(size) has been called
    EEPROM,             \* the device: EEPROM[a] for a in 0..capacity-1
    mgr,                \* mgr[m]: the fields of manager m (and *_MEMORY)
    lastOp,             \* the operation that ran last, and what it did
    hist,               \* hist[m]: what manager m's sketch has done so far
    wear,               \* wear[a]: puts that reached cell a (kept under SpecWear)
    wipes,              \* wipe() calls so far
    restarts            \* power cycles so far

vars == <<board, capacity, EEPROM_MAX_WRITES, sizeofT, begun, EEPROM, mgr, lastOp,
          hist, wear, wipes, restarts>>

(* ------------------------------------------------------------------ *)
(* Bytes and fixed-width integers                                      *)
(* ------------------------------------------------------------------ *)

RECURSIVE XorBits(_, _, _)
XorBits(a, b, n) ==
    IF n = 0 THEN 0
    ELSE (((a % 2) + (b % 2)) % 2) + 2 * XorBits(a \div 2, b \div 2, n - 1)

\* a ^ b on bytes, tabulated.
XorTable == [a \in 0..255 |-> [b \in 0..255 |-> XorBits(a, b, 8)]]

Xor8(a, b) == XorTable[a][b]

\* uint16_t <-> its two bytes in memory (little-endian targets).
Bytes16(n) == <<n % 256, (n \div 256) % 256>>

Word16(b) == b[1] + 256 * b[2]

\* uint32_t as four little-endian bytes.
U32(n) == <<n % 256, (n \div 256) % 256, (n \div 65536) % 256, (n \div 16777216) % 256>>

\* x++ on a uint32_t.
Inc32(x) ==
    IF x[1] < 255 THEN <<x[1] + 1, x[2], x[3], x[4]>>
    ELSE IF x[2] < 255 THEN <<0, x[2] + 1, x[3], x[4]>>
    ELSE IF x[3] < 255 THEN <<0, 0, x[3] + 1, x[4]>>
    ELSE IF x[4] < 255 THEN <<0, 0, 0, x[4] + 1>>
    ELSE <<0, 0, 0, 0>>

\* x < y on uint32_t.
Lt32(x, y) ==
    \/ x[4] < y[4]
    \/ x[4] = y[4] /\ x[3] < y[3]
    \/ x[4] = y[4] /\ x[3] = y[3] /\ x[2] < y[2]
    \/ x[4] = y[4] /\ x[3] = y[3] /\ x[2] = y[2] /\ x[1] < y[1]

\* The error value of the README: 0.
NO_SPACE_README == <<0, 0, 0, 0>>

\* The value update() returns when no space is left.
NO_SPACE == <<255, 255, 255, 255>>

(* ------------------------------------------------------------------ *)
(* CRC library (MSB first, initial value 0, no final xor)              *)
(* ------------------------------------------------------------------ *)

CRC8_POLYNOME == 213

CRC32_POLYNOME == <<4, 193, 29, 183>>

RECURSIVE Crc8Bits(_, _)
Crc8Bits(c, n) ==
    IF n = 0 THEN c
    ELSE Crc8Bits(IF c >= 128 THEN Xor8((2 * c) % 256, CRC8_POLYNOME) ELSE 2 * c, n - 1)

\* The eight shifts of one byte through the CRC-8 register, tabulated.
Crc8Byte == [c \in 0..255 |-> Crc8Bits(c, 8)]

RECURSIVE Crc8From(_, _, _, _)
Crc8From(c, array, i, length) ==
    IF i > length THEN c
    ELSE Crc8From(Crc8Byte[Xor8(c, array[i])], array, i + 1, length)

\* crc8(array, length)
crc8(array, length) == Crc8From(0, array, 1, length)

\* The 32-bit register, most significant byte first.
Shl32(r) ==
    << ((2 * r[1]) % 256) + (r[2] \div 128),
       ((2 * r[2]) % 256) + (r[3] \div 128),
       ((2 * r[3]) % 256) + (r[4] \div 128),
       (2 * r[4]) % 256 >>

Xor32(r, p) == <<Xor8(r[1], p[1]), Xor8(r[2], p[2]), Xor8(r[3], p[3]), Xor8(r[4], p[4])>>

RECURSIVE Crc32Bits(_, _)
Crc32Bits(r, n) ==
    IF n = 0 THEN r
    ELSE Crc32Bits(IF r[1] >= 128 THEN Xor32(Shl32(r), CRC32_POLYNOME) ELSE Shl32(r), n - 1)

\* The eight shifts of a top byte through the CRC-32 register, tabulated;
\* the three lower bytes move up one place unchanged (the shifts are linear).
Crc32Byte == [c \in 0..255 |-> Crc32Bits(<<c, 0, 0, 0>>, 8)]

RECURSIVE Crc32From(_, _, _, _)
Crc32From(r, array, i, length) ==
    IF i > length THEN r
    ELSE Crc32From(Xor32(<<r[2], r[3], r[4], 0>>, Crc32Byte[Xor8(r[1], array[i])]),
                   array, i + 1, length)

\* crc32(array, length), as the four little-endian bytes of the result.
crc32(array, length) ==
    LET r == Crc32From(<<0, 0, 0, 0>>, array, 1, length)
    IN  <<r[4], r[3], r[2], r[1]>>

(* ------------------------------------------------------------------ *)
(* The EEPROM object                                                   *)
(* ------------------------------------------------------------------ *)

\* EEPROM.length(): the flash emulation has no bytes before EEPROM.begin().
Length(bgn) == IF board = "FLASH" /\ ~bgn THEN 0 ELSE capacity

\* The device during one call of a method: its cells and the puts of the
\* call so far, each as <<address, number of bytes, accepted>>.
Device(cells) == [cell |-> cells, log |-> <<>>]

\* EEPROM.put(address, t), t given as its bytes.  The flash emulation
\* refuses a put that does not lie inside the device; the plain EEPROM
\* writes byte by byte and its address register wraps at the capacity.
Put(d, bgn, address, t) ==
    IF board = "FLASH"
    THEN IF address + Len(t) > Length(bgn)
         THEN [d EXCEPT !.log = Append(d.log, <<address, Len(t), FALSE>>)]
         ELSE [cell |-> [a \in DOMAIN d.cell |->
                           IF a >= address /\ a < address + Len(t)
                           THEN t[a - address + 1] ELSE d.cell[a]],
               log  |-> Append(d.log, <<address, Len(t), TRUE>>)]
    ELSE [cell |-> [a \in DOMAIN d.cell |->
                      LET i == ((a - address) % capacity) + 1
                      IN  IF i <= Len(t) THEN t[i] ELSE d.cell[a]],
          log  |-> Append(d.log, <<address, Len(t), TRUE>>)]

\* The cell a put at address x lands in.
Cell(x) == IF board = "AVR" THEN x % capacity ELSE x

\* How many puts of a call reached cell a.
Hits(log, a) ==
    Cardinality({i \in DOMAIN log :
                   /\ log[i][3]
                   /\ \E x \in log[i][1]..(log[i][1] + log[i][2] - 1) : Cell(x) = a})

\* The cells a call put to, and the addresses at or past the end of the
\* device it passed to put.
PutCells(log) ==
    {Cell(x) : x \in UNION {log[i][1]..(log[i][1] + log[i][2] - 1) :
                             i \in {j \in DOMAIN log : log[j][3]}}}

PutPast(log, bgn) ==
    {x \in UNION {log[i][1]..(log[i][1] + log[i][2] - 1) : i \in DOMAIN log} :
       x >= Length(bgn)}

\* EEPROM.get(address, t): the bytes read into t (t's old bytes when the
\* flash emulation refuses the read).
Get(cells, bgn, address, t) ==
    IF board = "FLASH"
    THEN IF address + Len(t) > Length(bgn) THEN t
         ELSE [i \in 1..Len(t) |-> cells[address + i - 1]]
    ELSE [i \in 1..Len(t) |-> cells[(address + i - 1) % capacity]]

\* a - b in the unsigned type of EEPROM.length() - sizeof(...): 16 bits on
\* AVR; on the 32-bit builds a wrapped difference exceeds every uint16_t
\* address and is represented by the largest integer.
USub(a, b) ==
    IF a >= b THEN a - b
    ELSE IF board = "AVR" THEN 65536 - (b - a)
    ELSE 2147483647

\* sizeof(_ENTRY_KEY) + sizeof(_ENTRY_CRC8) + sizeof(_ENTRY_WRITE_COUNT)
\*   + sizeof(_ENTRY_LENGTH) + sizeof(_ENTRY_CRC32)
\* A header counted without its length field.
HeaderSizeNoLength == 2 + 1 + 4 + 4

HeaderSize == 2 + 1 + 4 + 2 + 4

\* Offsets of the fields of an entry.
OffCRC8 == 2

OffCount == 2 + 1

OffLength == 2 + 1 + 4

OffData == 2 + 1 + 4 + 2

(* ------------------------------------------------------------------ *)
(* EEPROManager<T>: private methods                                    *)
(* ------------------------------------------------------------------ *)

\* A record of n bytes, all equal to f.
Record(f, n) == [i \in 1..n |-> f]

\* The byte the record type's default initialisers are modelled by.
DefaultFill == 1

\* The fields of a manager that has not been constructed.
NoManager ==
    [constructed |-> FALSE, ADDRESS |-> 0, MEMORY |-> <<>>, ENTRY_KEY |-> 0,
     ENTRY_CRC8 |-> 0, ENTRY_WRITE_COUNT |-> U32(0), ENTRY_LENGTH |-> 0,
     ENTRY_CRC32 |-> U32(0), bound |-> TRUE, begun |-> FALSE, pending |-> ""]

\* initialise()
initialise(s, n) ==
    [s EXCEPT !.ENTRY_CRC8 = crc8(Bytes16(s.ENTRY_KEY), 1),
              !.ENTRY_WRITE_COUNT = U32(1),
              !.ENTRY_LENGTH = n,
              !.ENTRY_CRC32 = crc32(s.MEMORY, n)]

\* How many headers one scan is followed through.
LocateFuel == 8

\* A scan that takes any header with a valid key check and an unspent
\* count for the manager's own.
RECURSIVE locateAnyKey(_, _, _, _, _)
locateAnyKey(addr, key, cells, bgn, fuel) ==
    IF ~(addr < Length(bgn))
    THEN [ADDRESS |-> addr, validSpace |-> 0, returns |-> TRUE]
    ELSE IF fuel = 0
    THEN [ADDRESS |-> addr, validSpace |-> 0, returns |-> FALSE]
    ELSE
      LET EEPROMKey  == Word16(Get(cells, bgn, addr, <<0, 0>>))
          EEPROMCRC8 == Get(cells, bgn, addr + OffCRC8, <<0>>)[1]
      IN  IF crc8(Bytes16(EEPROMKey), 1) = EEPROMCRC8
          THEN LET EEPROMCount  == Get(cells, bgn, addr + OffCount, <<0, 0, 0, 0>>)
                   EEPROMLength == Word16(Get(cells, bgn, addr + OffLength, <<0, 0>>))
               IN  IF Lt32(EEPROMCount, U32(EEPROM_MAX_WRITES))
                   THEN [ADDRESS |-> addr, validSpace |-> 1, returns |-> TRUE]
                   ELSE locateAnyKey((addr + EEPROMLength + HeaderSize) % 65536,
                                     key, cells, bgn, fuel - 1)
          ELSE [ADDRESS |-> addr, validSpace |-> 0, returns |-> TRUE]

\* locate(): the loop, from candidate address addr.
RECURSIVE locateFrom(_, _, _, _, _)
locateFrom(addr, key, cells, bgn, fuel) ==
    IF ~(addr < Length(bgn))
    THEN [ADDRESS |-> addr, validSpace |-> 0, returns |-> TRUE]
    ELSE IF fuel = 0
    THEN [ADDRESS |-> addr, validSpace |-> 0, returns |-> FALSE]
    ELSE
      LET EEPROMKey  == Word16(Get(cells, bgn, addr, <<0, 0>>))
          EEPROMCRC8 == Get(cells, bgn, addr + OffCRC8, <<0>>)[1]
      IN  IF crc8(Bytes16(EEPROMKey), 1) = EEPROMCRC8
          THEN LET EEPROMCount  == Get(cells, bgn, addr + OffCount, <<0, 0, 0, 0>>)
                   EEPROMLength == Word16(Get(cells, bgn, addr + OffLength, <<0, 0>>))
               IN  IF EEPROMKey = key /\ Lt32(EEPROMCount, U32(EEPROM_MAX_WRITES))
                   THEN [ADDRESS |-> addr, validSpace |-> 1, returns |-> TRUE]
                   ELSE locateFrom((addr + EEPROMLength + HeaderSize) % 65536,
                                   key, cells, bgn, fuel - 1)
          ELSE [ADDRESS |-> addr, validSpace |-> 0, returns |-> TRUE]

\* locate()
locate(s, cells, bgn) == locateFrom(s.ADDRESS, s.ENTRY_KEY, cells, bgn, LocateFuel)

\* A write that puts nothing.
writeNothing(s, d, bgn, n) == d

\* write(): the device after it.
write(s, d, bgn, n) ==
    LET a  == s.ADDRESS
        d1 == Put(d,  bgn, a, Bytes16(s.ENTRY_KEY))
        d2 == Put(d1, bgn, a + OffCRC8, <<s.ENTRY_CRC8>>)
        d3 == Put(d2, bgn, a + OffCount, s.ENTRY_WRITE_COUNT)
        d4 == Put(d3, bgn, a + OffLength, Bytes16(s.ENTRY_LENGTH))
        d5 == Put(d4, bgn, a + OffData, s.MEMORY)
    IN  Put(d5, bgn, a + OffData + n, s.ENTRY_CRC32)

\* A read that fetches the count and the checksum but not the payload.
readNoData(s, cells, bgn, n) ==
    LET a == s.ADDRESS
    IN  [s EXCEPT !.ENTRY_WRITE_COUNT = Get(cells, bgn, a + OffCount, s.ENTRY_WRITE_COUNT),
                  !.ENTRY_CRC32 = Get(cells, bgn, a + OffData + n, s.ENTRY_CRC32)]

\* read(): the manager after it.
read(s, cells, bgn, n) ==
    LET a == s.ADDRESS
    IN  [s EXCEPT !.ENTRY_WRITE_COUNT = Get(cells, bgn, a + OffCount, s.ENTRY_WRITE_COUNT),
                  !.MEMORY = Get(cells, bgn, a + OffData, s.MEMORY),
                  !.ENTRY_CRC32 = Get(cells, bgn, a + OffData + n, s.ENTRY_CRC32)]

\* A begin() that writes the entry whatever locate() said.
beginRewrite(s, d, bgn, n) ==
    LET s1  == initialise(s, n)
        loc == locate(s1, d.cell, bgn)
        s2  == [s1 EXCEPT !.ADDRESS = loc.ADDRESS]
    IN  [s |-> s2, d |-> write(s2, d, bgn, n), found |-> (loc.validSpace = 1)]

\* begin(): the manager and the device after it, and what locate() said.
begin(s, d, bgn, n) ==
    LET s1  == initialise(s, n)
        loc == locate(s1, d.cell, bgn)
        s2  == [s1 EXCEPT !.ADDRESS = loc.ADDRESS]
    IN  IF loc.validSpace = 1
        THEN [s |-> read(s2, d.cell, bgn, n), d |-> d, found |-> TRUE]
        ELSE [s |-> s2, d |-> write(s2, d, bgn, n), found |-> FALSE]

(* ------------------------------------------------------------------ *)
(* EEPROManager<T>: public methods                                     *)
(* ------------------------------------------------------------------ *)

\* update() when the data has changed.  The result holds the manager and
\* the device after the call, the value returned, the branch taken
\* ("counted": count within limits; "moved": written to a new entry;
\* "full": no space left), the incremented count and what locate() said.
updateChanged(s, d, bgn, n) ==
    LET s1 == [s EXCEPT !.ENTRY_WRITE_COUNT = Inc32(s.ENTRY_WRITE_COUNT),
                        !.ENTRY_CRC32 = crc32(s.MEMORY, n)]
        a  == s1.ADDRESS
        d1 == Put(d,  bgn, a + OffCount, s1.ENTRY_WRITE_COUNT)
        d2 == Put(d1, bgn, a + OffData, s1.MEMORY)
        d3 == Put(d2, bgn, a + OffData + n, s1.ENTRY_CRC32)
    IN  IF ~Lt32(s1.ENTRY_WRITE_COUNT, U32(EEPROM_MAX_WRITES))
        THEN LET loc == locate(s1, d3.cell, bgn)
                 s2  == [s1 EXCEPT !.ADDRESS = loc.ADDRESS]
             IN  IF s2.ADDRESS < USub(Length(bgn), HeaderSize + n)
                 THEN LET s3 == [s2 EXCEPT !.ENTRY_WRITE_COUNT = U32(1)]
                      IN  [s |-> s3, d |-> write(s3, d3, bgn, n),
                           ret |-> s3.ENTRY_WRITE_COUNT, branch |-> "moved",
                           count |-> s1.ENTRY_WRITE_COUNT, found |-> loc.validSpace = 1]
                 ELSE [s |-> s2, d |-> d3, ret |-> NO_SPACE, branch |-> "full",
                       count |-> s1.ENTRY_WRITE_COUNT, found |-> loc.validSpace = 1]
        ELSE [s |-> s1, d |-> d3, ret |-> s1.ENTRY_WRITE_COUNT, branch |-> "counted",
              count |-> s1.ENTRY_WRITE_COUNT, found |-> FALSE]

\* An update() that writes whether or not the data has changed.
updateAlways(s, d, bgn, n) == updateChanged(s, d, bgn, n)

\* update(): branch "same" when the data matches.
update(s, d, bgn, n) ==
    IF crc32(s.MEMORY, n) = s.ENTRY_CRC32
    THEN [s |-> s, d |-> d, ret |-> U32(0), branch |-> "same",
          count |-> s.ENTRY_WRITE_COUNT, found |-> FALSE]
    ELSE updateChanged(s, d, bgn, n)

\* A force() that keeps update()'s short cut for an unchanged record.
forceIfChanged(s, d, bgn, n) ==
    IF crc32(s.MEMORY, n) = s.ENTRY_CRC32 THEN d ELSE write(s, d, bgn, n)

\* force(): the device after it.
force(s, d, bgn, n) == write(s, d, bgn, n)

\* The readings of reset(), whose two assignments do not type-check as
\* written (a T initialised from new T, a T assigned to the pointer
\* _MEMORY): with default_values a pointer, _MEMORY is rebound to the new
\* default object and the sketch's record is no longer the one managed;
\* with the assignment made through _MEMORY, the sketch's record takes the
\* default values.
ResetReadings == {"rebind", "assign"}

\* reset() under a reading: the manager and the device after it.
reset(s, d, bgn, n, reading) ==
    LET s1 == IF reading = "rebind"
              THEN [s EXCEPT !.MEMORY = Record(DefaultFill, n), !.bound = FALSE]
              ELSE [s EXCEPT !.MEMORY = Record(DefaultFill, n)]
    IN  [s |-> s1, d |-> write(s1, d, bgn, n)]

\* The loop of wipe(): every byte of the device is put to 0xFF.
erase(d, bgn) ==
    [cell |-> [a \in DOMAIN d.cell |-> IF a < Length(bgn) THEN 255 ELSE d.cell[a]],
     log  |-> IF Length(bgn) > 0 THEN Append(d.log, <<0, Length(bgn), TRUE>>) ELSE d.log]

\* wipe()
wipe(s, d, bgn, n) == begin(s, erase(d, bgn), bgn, n)

(* ------------------------------------------------------------------ *)
(* The program                                                         *)
(* ------------------------------------------------------------------ *)

\* What is remembered of the operation that ran last: the manager, the
\* value and branch of update(), the count it incremented to, what
\* locate() said, the manager's address before the call, its record before
\* a begin(), whether
\* the record was untouched since the previous update(), the cells the call
\* put to and the addresses past the device it passed to put.
Op(name, m, ret, branch, found, from, mem, clean, puts, out) ==
    [op |-> name, m |-> m, ret |-> ret, branch |-> branch, count |-> U32(0),
     found |-> found, from |-> from, mem |-> mem, clean |-> clean,
     puts |-> puts, out |-> out]

NoOp == Op("none", 0, U32(0), "", FALSE, 0, <<>>, FALSE, {}, {})

\* What is remembered of a manager's sketch: the record its manager last
\* put to the device (kept across power cycles), whether the record is
\* untouched since the manager's previous update(), whether an update() of
\* the manager has returned 0xFFFFFFFF with no wipe() since, whether
\* one ever has for the manager's key, before or after a power cycle or a
\* wipe(), whether a
\* call of the manager has started during a call of another, and the
\* addresses that the manager's update() calls have relocated from since
\* the last wipe() or power cycle.
NoHistory ==
    [written |-> <<>>, clean |-> FALSE, spent |-> FALSE, exhausted |-> FALSE,
     raced |-> FALSE, old |-> {}]

Wrote(h, s, d) ==
    IF \E i \in DOMAIN d.log : d.log[i][3] THEN [h EXCEPT !.written = s.MEMORY] ELSE h

\* The puts of one call added to the wear of the cells (when it is kept).
Worn(w, d) == [a \in DOMAIN w |-> w[a] + Hits(d.log, a)]

\* The managers of the program under Spec: one manager on the device.
Mgrs == {1}

Builds ==
    /\ board \in Boards
    /\ capacity \in Capacities
    /\ EEPROM_MAX_WRITES \in MaxWritesValues
    /\ sizeofT \in [AllMgrs -> RecordSizes]
    /\ sizeofT[2] = 3
    /\ capacity = 64 => (sizeofT[1] = 4 /\ EEPROM_MAX_WRITES = 2)

Start ==
    /\ begun = FALSE
    /\ EEPROM = [a \in 0..(capacity - 1) |-> 255]
    /\ mgr = [m \in AllMgrs |-> NoManager]
    /\ lastOp = NoOp
    /\ hist = [m \in AllMgrs |-> NoHistory]
    /\ wipes = 0
    /\ restarts = 0

Init == Builds /\ Start /\ wear = <<>>

Fixed == UNCHANGED <<board, capacity, EEPROM_MAX_WRITES, sizeofT>>

Counted == UNCHANGED <<wipes, restarts>>

\* The sketch uses a manager in loop() after its constructor has run and,
\* in the flash builds, after setup() has called its synchronise(): after
\* its begin() has run on the started device.
Ready(m) == mgr[m].constructed /\ mgr[m].begun

\* The constructor's assignments; the bound record, a global of the sketch,
\* holds its type's default values.
Constructed(m) ==
    [NoManager EXCEPT !.constructed = TRUE,
                      !.MEMORY = Record(DefaultFill, sizeofT[m]),
                      !.ENTRY_KEY = KEY(m)]

\* EEPROManager(T *MEMORY, KEY)
Construct(m) ==
    /\ ~mgr[m].constructed
    /\ \E r \in {begin(Constructed(m), Device(EEPROM), begun, sizeofT[m])} :
           /\ mgr' = [mgr EXCEPT ![m] = [r.s EXCEPT !.begun = (board = "AVR" \/ begun)]]
           /\ EEPROM' = r.d.cell
           /\ lastOp' = Op("construct", m, U32(0), "", r.found, 0, Record(DefaultFill, sizeofT[m]), FALSE,
                          PutCells(r.d.log), PutPast(r.d.log, begun))
           /\ hist' = [hist EXCEPT ![m] = Wrote([@ EXCEPT !.clean = FALSE], r.s, r.d)]
           /\ wear' = Worn(wear, r.d)
    /\ UNCHANGED begun
    /\ Fixed
    /\ Counted

\* The sketch assigns to the bound record (followed while it is the record
\* _MEMORY points to).
Mutate(m, f) ==
    /\ Ready(m)
    /\ mgr[m].bound
    /\ mgr[m].MEMORY # Record(f, sizeofT[m])
    /\ mgr' = [mgr EXCEPT ![m].MEMORY = Record(f, sizeofT[m])]
    /\ lastOp' = [NoOp EXCEPT !.op = "mutate", !.m = m]
    /\ hist' = [hist EXCEPT ![m].clean = FALSE]
    /\ UNCHANGED <<EEPROM, begun, wear>>
    /\ Fixed
    /\ Counted

\* How far past EEPROM_MAX_WRITES the count is followed.
Overrun == IF DOMAIN wear = {} THEN MaxOverrun ELSE MaxWearOverrun

\* update()
Update(m) ==
    /\ Ready(m)
    /\ Lt32(mgr[m].ENTRY_WRITE_COUNT, U32(EEPROM_MAX_WRITES + Overrun))
    /\ \E r \in {update(mgr[m], Device(EEPROM), begun, sizeofT[m])} :
           /\ mgr' = [mgr EXCEPT ![m] = r.s]
           /\ EEPROM' = r.d.cell
           /\ lastOp' = [Op("update", m, r.ret, r.branch, r.found, mgr[m].ADDRESS, <<>>,
                           hist[m].clean, PutCells(r.d.log), PutPast(r.d.log, begun))
                          EXCEPT !.count = r.count]
           /\ hist' = [hist EXCEPT ![m] =
                         Wrote([@ EXCEPT !.clean = TRUE,
                                         !.spent = @ \/ r.ret = NO_SPACE,
                                         !.exhausted = @ \/ r.ret = NO_SPACE,
                                         !.old = IF r.branch = "moved"
                                                    /\ r.s.ADDRESS # mgr[m].ADDRESS
                                                 THEN @ \cup {mgr[m].ADDRESS}
                                                 ELSE @], r.s, r.d)]
           /\ wear' = Worn(wear, r.d)
    /\ UNCHANGED begun
    /\ Fixed
    /\ Counted

\* force()
Force(m) ==
    /\ Ready(m)
    /\ \E d \in {force(mgr[m], Device(EEPROM), begun, sizeofT[m])} :
           /\ EEPROM' = d.cell
           /\ lastOp' = Op("force", m, U32(0), "", FALSE, mgr[m].ADDRESS, <<>>, FALSE,
                          PutCells(d.log), PutPast(d.log, begun))
           /\ hist' = [hist EXCEPT ![m] = Wrote(@, mgr[m], d)]
           /\ wear' = Worn(wear, d)
    /\ UNCHANGED <<mgr, begun>>
    /\ Fixed
    /\ Counted

\* reset()
Reset(m) ==
    /\ Ready(m)
    /\ \E r \in {reset(mgr[m], Device(EEPROM), begun, sizeofT[m], reading) :
                    reading \in ResetReadings} :
           /\ mgr' = [mgr EXCEPT ![m] = r.s]
           /\ EEPROM' = r.d.cell
           /\ lastOp' = Op("reset", m, U32(0), "", FALSE, mgr[m].ADDRESS, <<>>, FALSE,
                          PutCells(r.d.log), PutPast(r.d.log, begun))
           /\ hist' = [hist EXCEPT ![m] = Wrote([@ EXCEPT !.clean = FALSE], r.s, r.d)]
           /\ wear' = Worn(wear, r.d)
    /\ UNCHANGED begun
    /\ Fixed
    /\ Counted

\* wipe()
Wipe(m) ==
    /\ Ready(m)
    /\ wipes < MaxWipes
    /\ wipes' = wipes + 1
    /\ UNCHANGED restarts
    /\ \E r \in {wipe(mgr[m], Device(EEPROM), begun, sizeofT[m])} :
           /\ mgr' = [mgr EXCEPT ![m] = r.s]
           /\ EEPROM' = r.d.cell
           /\ lastOp' = Op("wipe", m, U32(0), "", r.found, mgr[m].ADDRESS, mgr[m].MEMORY, FALSE,
                          PutCells(r.d.log), PutPast(r.d.log, begun))
           /\ hist' = [hist EXCEPT ![m] = Wrote([@ EXCEPT !.spent = FALSE, !.old = {}], r.s, r.d)]
           /\ wear' = Worn(wear, r.d)
    /\ UNCHANGED begun
    /\ Fixed

\* synchronise(): empty in the default build; EEPROM.begin(size) and
\* begin() in the flash builds.
Synchronise(m) ==
    /\ mgr[m].constructed
    /\ board = "FLASH"
    /\ \E r \in {begin(mgr[m], Device(EEPROM), TRUE, sizeofT[m])} :
           /\ mgr' = [mgr EXCEPT ![m] = [r.s EXCEPT !.begun = TRUE]]
           /\ EEPROM' = r.d.cell
           /\ lastOp' = Op("synchronise", m, U32(0), "", r.found, mgr[m].ADDRESS,
                          mgr[m].MEMORY, FALSE, PutCells(r.d.log), PutPast(r.d.log, TRUE))
           /\ hist' = [hist EXCEPT ![m] = Wrote([@ EXCEPT !.clean = FALSE], r.s, r.d)]
           /\ wear' = Worn(wear, r.d)
    /\ begun' = TRUE
    /\ Fixed
    /\ Counted

\* Power cycle: the device keeps its bytes, the sketch starts again.
Restart ==
    /\ \E m \in AllMgrs : mgr[m].constructed
    /\ restarts < MaxRestarts
    /\ restarts' = restarts + 1
    /\ UNCHANGED wipes
    /\ mgr' = [m \in AllMgrs |-> NoManager]
    /\ begun' = FALSE
    /\ lastOp' = [NoOp EXCEPT !.op = "restart"]
    /\ hist' = [m \in AllMgrs |-> [hist[m] EXCEPT !.clean = FALSE, !.spent = FALSE,
                                                    !.old = {}]]
    /\ UNCHANGED <<EEPROM, wear>>
    /\ Fixed

Next ==
    \/ \E m \in Mgrs : Construct(m)
    \/ \E m \in Mgrs, f \in RecordFills : Mutate(m, f)
    \/ \E m \in Mgrs : Update(m)
    \/ \E m \in Mgrs : Force(m)
    \/ \E m \in Mgrs : Reset(m)
    \/ \E m \in Mgrs : Wipe(m)
    \/ \E m \in Mgrs : Synchronise(m)
    \/ Restart

Spec == Init /\ [][Next]_vars

\* The scenario device: 64 bytes, a 4-byte record, a limit of 2 writes.
InitScenario == Init /\ capacity = 64

SpecScenario == InitScenario /\ [][Next]_vars

\* A device shorter than one entry: 16 bytes for an entry of 17.
InitShort == Init /\ capacity = 16 /\ sizeofT[1] = 4

SpecShort == InitShort /\ [][Next]_vars

\* A device of exactly two entries: 32 bytes for entries of 16.
InitExactFit == Init /\ capacity = 32 /\ sizeofT[1] = 3

SpecExactFit == InitExactFit /\ [][Next]_vars

\* The sketch of the example: construction, synchronise() in setup(), the
\* record changed and update() called in loop().
NextSketch ==
    \E m \in Mgrs :
        \/ Construct(m)
        \/ Synchronise(m)
        \/ \E f \in RecordFills : Mutate(m, f)
        \/ Update(m)

\* The sketch with the puts that reach each cell counted.
InitWear == Builds /\ Start /\ capacity = 32 /\ wear = [a \in 0..(capacity - 1) |-> 0]

SpecWear == InitWear /\ [][NextSketch]_vars

\* Device contents left by other sketches: up to two entries from address
\* 0, each with one of the keys below (257 has the low byte of key 1, hence
\* its key check), a key check that is right or not, a count that is 1 or
\* spent, a payload of 3 or 4 bytes.
ScanKeys == {1, 257, 258}

Headers == [key : ScanKeys, valid : BOOLEAN, spent : BOOLEAN, length : RecordSizes]

EntryBytes(h) ==
    Bytes16(h.key)
    \o <<IF h.valid THEN crc8(Bytes16(h.key), 1) ELSE 0>>
    \o (IF h.spent THEN U32(EEPROM_MAX_WRITES) ELSE U32(1))
    \o Bytes16(h.length)
    \o Record(255, h.length)
    \o crc32(Record(255, h.length), h.length)

Image(h1, h2) ==
    LET bytes == EntryBytes(h1) \o EntryBytes(h2)
    IN  [a \in 0..(capacity - 1) |-> IF a < Len(bytes) THEN bytes[a + 1] ELSE 255]

InitScan ==
    /\ board \in Boards
    /\ capacity = 32
    /\ EEPROM_MAX_WRITES \in MaxWritesValues
    /\ sizeofT = [m \in AllMgrs |-> IF m = 1 THEN 4 ELSE 3]
    /\ begun = FALSE
    /\ \E h1 \in Headers, h2 \in Headers : EEPROM = Image(h1, h2)
    /\ mgr = [m \in AllMgrs |-> NoManager]
    /\ lastOp = NoOp
    /\ hist = [m \in AllMgrs |-> NoHistory]
    /\ wipes = 0
    /\ restarts = 0
    /\ wear = <<>>

SpecScan == InitScan /\ [][NextSketch]_vars

\* Device contents with one entry of key 1 at address 0 whose payload
\* bytes or payload checksum may have changed since they were written: the
\* payload is filled with one byte, the checksum is that of a payload
\* filled with another (the same byte for an intact entry).
StoredFills == {0, 255}

InitCorrupt ==
    /\ board \in Boards
    /\ capacity = 32
    /\ EEPROM_MAX_WRITES \in MaxWritesValues
    /\ sizeofT \in [AllMgrs -> RecordSizes]
    /\ sizeofT[2] = 3
    /\ begun = FALSE
    /\ \E f \in StoredFills, g \in StoredFills :
          LET bytes == Bytes16(KEY(1)) \o <<crc8(Bytes16(KEY(1)), 1)>> \o U32(1)
                       \o Bytes16(sizeofT[1]) \o Record(f, sizeofT[1])
                       \o crc32(Record(g, sizeofT[1]), sizeofT[1])
          IN  EEPROM = [a \in 0..(capacity - 1) |->
                          IF a < Len(bytes) THEN bytes[a + 1] ELSE 255]
    /\ mgr = [m \in AllMgrs |-> NoManager]
    /\ lastOp = NoOp
    /\ hist = [m \in AllMgrs |-> NoHistory]
    /\ wipes = 0
    /\ restarts = 0
    /\ wear = <<>>

SpecCorrupt == InitCorrupt /\ [][NextSketch]_vars

\* Two managers with the keys 1 and 258 and records of 4 and 3 bytes on
\* one erased 64-byte device, every call run to completion; each sketch
\* changes its record away from the defaults.
InitShared ==
    /\ board \in Boards
    /\ capacity = 64
    /\ EEPROM_MAX_WRITES \in MaxWritesValues
    /\ sizeofT = [m \in AllMgrs |-> IF m = 1 THEN 4 ELSE 3]
    /\ Start
    /\ wear = <<>>

NextShared ==
    \/ \E m \in AllMgrs :
          \/ Construct(m)
          \/ Synchronise(m)
          \/ \E f \in RecordFills \ {DefaultFill} : Mutate(m, f)
          \/ Update(m)
    \/ Restart

SpecShared == InitShared /\ [][NextShared]_vars

(* ------------------------------------------------------------------ *)
(* What the device holds                                               *)
(* ------------------------------------------------------------------ *)

\* The fields of the entry at address a, as the started device returns them.
StoredKey(cells, a) == Word16(Get(cells, TRUE, a, <<0, 0>>))

StoredCRC8(cells, a) == Get(cells, TRUE, a + OffCRC8, <<0>>)[1]

StoredCount(cells, a) == Get(cells, TRUE, a + OffCount, <<0, 0, 0, 0>>)

StoredLength(cells, a) == Word16(Get(cells, TRUE, a + OffLength, <<0, 0>>))

StoredData(cells, a, n) == Get(cells, TRUE, a + OffData, Record(0, n))

StoredCRC32(cells, a, n) == Get(cells, TRUE, a + OffData + n, <<0, 0, 0, 0>>)

\* The entry of n payload bytes at address a lies inside the device.
Inside(a, n) == a + HeaderSize + n <= capacity

\* The step is manager m's first begin() on the started device after its
\* construction: the constructor in the default build, the first
\* synchronise() in the flash builds.
FreshLoad(m) ==
    /\ lastOp'.m = m
    /\ lastOp'.op \in {"construct", "synchronise"}
    /\ ~mgr[m].begun
    /\ mgr'[m].begun

\* The step is an update() of manager m that found the data changed.
ChangedUpdate(m) ==
    /\ lastOp'.m = m
    /\ lastOp'.op = "update"
    /\ lastOp'.branch # "same"

(* ------------------------------------------------------------------ *)
(* Claims                                                              *)
(* ------------------------------------------------------------------ *)

\* C1: after a manager has written its entry, a fresh manager bound to the
\* same key over the same device (scan from address 0) holds, after its
\* construction, the record the first manager wrote last.
C1_RoundTrip ==
    [][\A m \in Mgrs :
         (FreshLoad(m) /\ restarts > 0 /\ hist[m].written # <<>>)
            => mgr'[m].MEMORY = hist[m].written]_vars

\* C2: an update() called with no mutation of the record since the
\* previous update() returns 0, puts nothing and changes no device byte.
C2_UpdateIdempotent ==
    [][\A m \in Mgrs :
         (lastOp'.op = "update" /\ lastOp'.m = m /\ hist[m].clean)
            => /\ lastOp'.ret = U32(0)
               /\ lastOp'.puts = {} /\ lastOp'.out = {}
               /\ EEPROM' = EEPROM]_vars

\* C2 witness: an update() ran on a record untouched since the previous
\* update(), which had stored a changed record.
C2_Witness ==
    /\ lastOp.op = "update" /\ lastOp.clean /\ lastOp.ret = U32(0)
    /\ hist[1].written = Record(255, sizeofT[1])
    /\ mgr[1].ENTRY_WRITE_COUNT = U32(2)

\* C3: an update() after a mutation stores the count one higher at the
\* active address and returns it while the new count is below
\* EEPROM_MAX_WRITES; the update() whose new count reaches EEPROM_MAX_WRITES
\* relocates the entry, the count stored at the new active address is 1 and
\* the call returns 1.
C3_CountThenRelocate ==
    [][\A m \in Mgrs :
         (ChangedUpdate(m) /\ Lt32(mgr[m].ENTRY_WRITE_COUNT, U32(EEPROM_MAX_WRITES)))
            => LET new == Inc32(mgr[m].ENTRY_WRITE_COUNT)
               IN  IF Lt32(new, U32(EEPROM_MAX_WRITES))
                   THEN /\ mgr'[m].ADDRESS = mgr[m].ADDRESS
                        /\ StoredCount(EEPROM', mgr'[m].ADDRESS) = new
                        /\ lastOp'.ret = new
                   ELSE /\ mgr'[m].ADDRESS # mgr[m].ADDRESS
                        /\ Inside(mgr'[m].ADDRESS, sizeofT[m])
                        /\ StoredCount(EEPROM', mgr'[m].ADDRESS) = U32(1)
                        /\ lastOp'.ret = U32(1)]_vars

\* C4: over any sequence of update() calls, those after the exhaustion
\* sentinel included, no device cell is put to more than EEPROM_MAX_WRITES
\* times by the manager.
C4_WearBound ==
    \A a \in DOMAIN wear : wear[a] <= EEPROM_MAX_WRITES

\* C5: when the count reaches EEPROM_MAX_WRITES and the address the scan
\* stops at leaves no room for a full entry inside the device, update()
\* returns 0xFFFFFFFF and the count stored at the old address is
\* EEPROM_MAX_WRITES.
C5_Exhaustion ==
    \A m \in Mgrs :
      ( /\ lastOp.op = "update" /\ lastOp.m = m
        /\ lastOp.branch \in {"moved", "full"}
        /\ lastOp.count = U32(EEPROM_MAX_WRITES)
        /\ ~Inside(mgr[m].ADDRESS, sizeofT[m]) )
      => /\ lastOp.ret = NO_SPACE
         /\ StoredCount(EEPROM, lastOp.from) = U32(EEPROM_MAX_WRITES)

\* C6: after wipe() the fresh entry is at address 0 and every byte outside
\* it is 0xFF.
C6_WipeLeavesEntryAtZero ==
    \A m \in Mgrs :
      (lastOp.op = "wipe" /\ lastOp.m = m)
      => /\ mgr[m].ADDRESS = 0
         /\ \A a \in DOMAIN EEPROM : a >= HeaderSize + sizeofT[m] => EEPROM[a] = 255

C8_DurableCopyWins ==
    \A m \in Mgrs :
      ( /\ lastOp.op \in {"construct", "synchronise"} /\ lastOp.m = m
        /\ lastOp.found )
      => /\ mgr[m].MEMORY = StoredData(EEPROM, mgr[m].ADDRESS, sizeofT[m])
         /\ mgr[m].ENTRY_WRITE_COUNT = StoredCount(EEPROM, mgr[m].ADDRESS)

\* C8 witness: a construction found a live entry whose payload differs from
\* the record the sketch held, and loaded it.
C8_Witness ==
    /\ lastOp.op \in {"construct", "synchronise"} /\ lastOp.found
    /\ lastOp.mem = Record(DefaultFill, sizeofT[1])
    /\ mgr[1].MEMORY = Record(255, sizeofT[1])
    /\ mgr[1].ENTRY_WRITE_COUNT = U32(2)

\* The scenario of C9: the 64-byte device holds nothing but the entry that
\* construction wrote at address 0, with write count 1.
ScenarioStart(m) ==
    /\ capacity = 64 /\ sizeofT[m] = 4 /\ EEPROM_MAX_WRITES = 2
    /\ Ready(m)
    /\ wipes = 0 /\ restarts = 0
    /\ mgr[m].ADDRESS = 0
    /\ mgr[m].ENTRY_WRITE_COUNT = U32(1)
    /\ StoredCount(EEPROM, 0) = U32(1)
    /\ \A a \in DOMAIN EEPROM : a >= 17 => EEPROM[a] = 255

\* C9 as stated: in the scenario the first update() after a mutation sets
\* the count to 2 and leaves the entry active at address 0 (the relocation
\* to address 17 waits for the second).
C9_FirstUpdateStays ==
    [][\A m \in Mgrs :
         (ScenarioStart(m) /\ ChangedUpdate(m))
            => /\ mgr'[m].ADDRESS = 0
               /\ StoredCount(EEPROM', 0) = U32(2)]_vars

\* C9 amended: in the scenario construction writes the entry at address 0
\* with count 1, and the first update() after a mutation stores count 2 at
\* address 0 and relocates in the same call: the full entry is written at
\* address 17 with count 1, the call returns 1, and the entry at address 0
\* keeps its key, key check and length.
C9_FirstUpdateRelocates ==
    [][\A m \in Mgrs :
         /\ (FreshLoad(m) /\ capacity = 64 /\ sizeofT[m] = 4 /\ EEPROM_MAX_WRITES = 2
               /\ \A a \in DOMAIN EEPROM : EEPROM[a] = 255)
               => /\ mgr'[m].ADDRESS = 0
                  /\ StoredKey(EEPROM', 0) = KEY(m)
                  /\ StoredCount(EEPROM', 0) = U32(1)
                  /\ StoredData(EEPROM', 0, 4) = mgr'[m].MEMORY
         /\ (ScenarioStart(m) /\ ChangedUpdate(m))
               => /\ lastOp'.ret = U32(1)
                  /\ mgr'[m].ADDRESS = 17
                  /\ StoredKey(EEPROM', 17) = KEY(m)
                  /\ StoredCRC8(EEPROM', 17) = crc8(Bytes16(KEY(m)), 1)
                  /\ StoredCount(EEPROM', 17) = U32(1)
                  /\ StoredLength(EEPROM', 17) = 4
                  /\ StoredData(EEPROM', 17, 4) = mgr'[m].MEMORY
                  /\ StoredCRC32(EEPROM', 17, 4) = crc32(mgr'[m].MEMORY, 4)
                  /\ StoredCount(EEPROM', 0) = U32(2)
                  /\ StoredKey(EEPROM', 0) = KEY(m)
                  /\ StoredCRC8(EEPROM', 0) = StoredCRC8(EEPROM, 0)
                  /\ StoredLength(EEPROM', 0) = 4
                  /\ StoredData(EEPROM', 0, 4) = mgr'[m].MEMORY]_vars

\* C9 witness: the scenario's first update() has relocated the entry to
\* address 17.
C9_Witness ==
    /\ capacity = 64 /\ wipes = 0 /\ restarts = 0
    /\ lastOp.op = "update" /\ lastOp.branch = "moved" /\ lastOp.from = 0
    /\ mgr[1].ADDRESS = 17
    /\ StoredCount(EEPROM, 17) = U32(1)
    /\ StoredCount(EEPROM, 0) = U32(2)

\* C10: when update() reaches EEPROM_MAX_WRITES, the relocation is performed
\* (update() returns 1) exactly when the whole entry fits at the address the
\* scan stopped at: address + 13 + sizeof(T) <= device length.
C10_RelocatesIffFits ==
    \A m \in Mgrs :
      ( /\ lastOp.op = "update" /\ lastOp.m = m
        /\ lastOp.branch \in {"moved", "full"}
        /\ ~lastOp.found )
      => (lastOp.ret = U32(1) <=> Inside(mgr[m].ADDRESS, sizeofT[m]))

\* C11: when update() returns the exhaustion sentinel, the bytes of the
\* entry at the address that was active before the call are the same as
\* before the call.
C11_FailureKeepsPriorCopy ==
    [][\A m \in Mgrs :
         ( /\ lastOp'.op = "update" /\ lastOp'.m = m
           /\ lastOp'.ret = NO_SPACE
           /\ Lt32(mgr[m].ENTRY_WRITE_COUNT, U32(EEPROM_MAX_WRITES)) )
         => \A a \in DOMAIN EEPROM :
              (a >= mgr[m].ADDRESS /\ a < mgr[m].ADDRESS + HeaderSize + sizeofT[m])
                 => EEPROM'[a] = EEPROM[a]]_vars

\* C12: once an update() of a manager has returned 0xFFFFFFFF, every later
\* update() of that manager that finds the record changed returns
\* 0xFFFFFFFF too, until wipe() is called.
C12_ExhaustionStays ==
    [][\A m \in Mgrs :
         (ChangedUpdate(m) /\ hist[m].spent) => lastOp'.ret = NO_SPACE]_vars

C14_ResetRestoresDefaults ==
    [][\A m \in Mgrs :
         ( /\ lastOp'.op = "reset" /\ lastOp'.m = m
           /\ mgr[m].bound
           /\ Inside(mgr[m].ADDRESS, sizeofT[m]) )
         => /\ (IF mgr'[m].bound THEN mgr'[m].MEMORY ELSE mgr[m].MEMORY)
                  = Record(DefaultFill, sizeofT[m])
            /\ StoredData(EEPROM', mgr'[m].ADDRESS, sizeofT[m])
                  = Record(DefaultFill, sizeofT[m])
            /\ mgr'[m].ADDRESS = mgr[m].ADDRESS
            /\ \A a \in DOMAIN EEPROM :
                 (a < mgr[m].ADDRESS \/ a >= mgr[m].ADDRESS + HeaderSize + sizeofT[m])
                    => EEPROM'[a] = EEPROM[a]]_vars

\* C15: when construction locates an entry of the bound key whose stored
\* payload checksum differs from crc32 of its stored payload, the payload
\* is not loaded: the bound record keeps what it held.
C15_CorruptionDetected ==
    \A m \in Mgrs :
      ( /\ lastOp.op \in {"construct", "synchronise"} /\ lastOp.m = m
        /\ lastOp.found
        /\ StoredCRC32(EEPROM, mgr[m].ADDRESS, sizeofT[m])
             # crc32(StoredData(EEPROM, mgr[m].ADDRESS, sizeofT[m]), sizeofT[m]) )
      => mgr[m].MEMORY = lastOp.mem

\* The other of the two managers.
Other(m) == CHOOSE o \in AllMgrs : o # m

\* The cells of manager m's active entry.
Range(m) == mgr[m].ADDRESS..(mgr[m].ADDRESS + HeaderSize + sizeofT[m] - 1)

\* C16: managers with distinct keys and record sizes constructed one after
\* another on an erased device with room for both: the second entry is
\* placed directly after the first (at 13 + the size of the first record)
\* and leaves the first entry's bytes alone, the active entries' byte
\* ranges never overlap, and, as long as no manager has run out of room, a
\* later fresh construction for each key recovers the record last stored
\* for that key.
C16_SharedDevice ==
    [][\A m \in AllMgrs :
         /\ ( /\ FreshLoad(m) /\ restarts = 0
              /\ Ready(Other(m)) /\ mgr[Other(m)].ADDRESS = 0
              /\ \A a \in DOMAIN EEPROM :
                   a >= HeaderSize + sizeofT[Other(m)] => EEPROM[a] = 255 )
            => /\ mgr'[m].ADDRESS = HeaderSize + sizeofT[Other(m)]
               /\ ~lastOp'.found
               /\ StoredKey(EEPROM', mgr'[m].ADDRESS) = KEY(m)
               /\ StoredData(EEPROM', mgr'[m].ADDRESS, sizeofT[m]) = mgr'[m].MEMORY
               /\ \A a \in DOMAIN EEPROM :
                    a < HeaderSize + sizeofT[Other(m)] => EEPROM'[a] = EEPROM[a]
         /\ ( /\ Ready(m)' /\ Ready(Other(m))'
              /\ ~hist'[m].exhausted /\ ~hist'[Other(m)].exhausted )
            => Range(m)' \cap Range(Other(m))' = {}
         /\ ( /\ FreshLoad(m) /\ restarts > 0
              /\ hist[m].written # <<>>
              /\ ~hist[m].exhausted /\ ~hist[Other(m)].exhausted )
            => /\ lastOp'.found
               /\ mgr'[m].MEMORY = hist[m].written]_vars

\* C16 witness: after a power cycle both managers have found their own
\* entries, the second directly after the first, and loaded the changed
\* records stored in them.
C16_Witness ==
    /\ restarts = 1
    /\ Ready(1) /\ Ready(2)
    /\ lastOp.op \in {"construct", "synchronise"} /\ lastOp.found
    /\ mgr[1].ADDRESS = 0 /\ mgr[2].ADDRESS = 17
    /\ mgr[1].MEMORY = Record(255, 4)
    /\ mgr[2].MEMORY = Record(255, 3)

\* The step is a synchronise() of manager m running begin() on the started
\* device directly after a first run of begin() by the same manager.
SecondRun(m) ==
    /\ lastOp.m = m /\ lastOp.op \in {"construct", "synchronise"}
    /\ mgr[m].begun
    /\ lastOp'.m = m /\ lastOp'.op = "synchronise"

\* C17: synchronise() called directly after the manager's begin() has run
\* on the started device leaves the active address, the bound record, the
\* shadow count and checksum (every field of the manager) and every device
\* byte as the first run left them.
C17_SecondRunChangesNothing ==
    [][\A m \in AllMgrs : SecondRun(m) => (mgr'[m] = mgr[m] /\ EEPROM' = EEPROM)]_vars

\* Stored length fields met by locate(): those of the bound records, the
\* one that makes the 16-bit candidate address come back to where it was
\* (65523 + 13 = 65536), and the largest.
ScanLengths == RecordSizes \cup {65523, 65535}

LocateHeaders == [key : ScanKeys, valid : BOOLEAN, spent : BOOLEAN, length : ScanLengths]

\* A device holding at address 0 the header of h and erased cells elsewhere.
HeaderImage(h) ==
    LET bytes == Bytes16(h.key)
                 \o <<IF h.valid THEN crc8(Bytes16(h.key), 1) ELSE 0>>
                 \o (IF h.spent THEN U32(EEPROM_MAX_WRITES) ELSE U32(1))
                 \o Bytes16(h.length)
    IN  [a \in 0..(capacity - 1) |-> IF a < Len(bytes) THEN bytes[a + 1] ELSE 255]

\* locate() has been called by begin() of a manager just constructed
\* (_ADDRESS 0) and is at the head of its loop.
InitLocate ==
    /\ board \in Boards
    /\ capacity = 32
    /\ EEPROM_MAX_WRITES \in MaxWritesValues
    /\ sizeofT = [m \in AllMgrs |-> IF m = 1 THEN 4 ELSE 3]
    /\ begun \in (IF board = "AVR" THEN {FALSE} ELSE BOOLEAN)
    /\ \E h \in LocateHeaders : EEPROM = HeaderImage(h)
    /\ mgr = [m \in AllMgrs |->
                IF m \in Mgrs THEN initialise(Constructed(m), sizeofT[m]) ELSE NoManager]
    /\ lastOp = [NoOp EXCEPT !.op = "locate", !.m = 1, !.branch = "loop"]
    /\ hist = [m \in AllMgrs |-> NoHistory]
    /\ wipes = 0
    /\ restarts = 0
    /\ wear = <<>>

\* One pass of the loop of locate(): it returns (at the end of the device,
\* with a match, or at free space) or goes on from the next candidate
\* address.
LocateStep(m) ==
    /\ lastOp.op = "locate" /\ lastOp.m = m /\ lastOp.branch = "loop"
    /\ \E r \in {locateFrom(mgr[m].ADDRESS, mgr[m].ENTRY_KEY, EEPROM, begun, 1)} :
           /\ mgr' = [mgr EXCEPT ![m].ADDRESS = r.ADDRESS]
           /\ lastOp' = [lastOp EXCEPT
                           !.found = (r.validSpace = 1),
                           !.branch = IF ~r.returns THEN "loop"
                                      ELSE IF r.validSpace = 1 THEN "found"
                                      ELSE IF ~(r.ADDRESS < Length(begun)) THEN "end"
                                      ELSE "free"]
    /\ UNCHANGED <<EEPROM, begun, hist, wear>>
    /\ Fixed
    /\ Counted

NextLocate == \E m \in Mgrs : LocateStep(m)

\* The loop keeps running until it returns.
SpecLocate == InitLocate /\ [][NextLocate]_vars /\ WF_vars(NextLocate)

\* C18: locate() terminates for every device content, with the candidate
\* address held in 16 bits: it eventually returns, reporting found, or not
\* found at free space, or not found with the candidate address at or past
\* the device length.
C18_LocateTerminates ==
    <>(lastOp.op = "locate" /\ lastOp.branch \in {"found", "free", "end"})

\* C19: the write_count stored in the active entry equals the number of
\* operations that have written the entry at its current address since it
\* was placed there.  Stated on the steps: an update(), force() or reset()
\* that puts bytes of the active entry and leaves the active address where
\* it was stores a count one above the count stored before.
C19_CountCountsWrites ==
    [][\A m \in Mgrs :
         ( /\ lastOp'.m = m /\ lastOp'.op \in {"update", "force", "reset"}
           /\ Ready(m) /\ Inside(mgr[m].ADDRESS, sizeofT[m])
           /\ StoredKey(EEPROM, mgr[m].ADDRESS) = KEY(m)
           /\ lastOp'.puts # {}
           /\ mgr'[m].ADDRESS = mgr[m].ADDRESS )
         => StoredCount(EEPROM', mgr[m].ADDRESS)
              = Inc32(StoredCount(EEPROM, mgr[m].ADDRESS))]_vars

\* C20: over update(), force() and reset() calls the manager's write_count
\* never decreases while the active address stays the same; it becomes 1
\* again only in a step that changes the active address.
C20_CountMonotonic ==
    [][\A m \in Mgrs :
         ( /\ lastOp'.m = m /\ lastOp'.op \in {"update", "force", "reset"}
           /\ Ready(m)
           /\ mgr'[m].ADDRESS = mgr[m].ADDRESS )
         => ~Lt32(mgr'[m].ENTRY_WRITE_COUNT, mgr[m].ENTRY_WRITE_COUNT)]_vars

\* The addresses of the headers that a scan of the started device from
\* address addr steps through: every candidate with a valid key check, up
\* to the first candidate without one or the end of the device.
RECURSIVE HeaderChain(_, _, _)
HeaderChain(cells, addr, fuel) ==
    IF ~(addr < capacity) \/ fuel = 0
    THEN {}
    ELSE LET EEPROMKey  == Word16(Get(cells, TRUE, addr, <<0, 0>>))
             EEPROMCRC8 == Get(cells, TRUE, addr + OffCRC8, <<0>>)[1]
             EEPROMLength == Word16(Get(cells, TRUE, addr + OffLength, <<0, 0>>))
         IN  IF crc8(Bytes16(EEPROMKey), 1) = EEPROMCRC8
             THEN {addr} \cup HeaderChain(cells,
                                          (addr + EEPROMLength + HeaderSize) % 65536,
                                          fuel - 1)
             ELSE {}

\* The live copies of a key: the headers of the chain from address 0 that
\* carry the key and a count below the limit.
LiveCopies(cells, key) ==
    {a \in HeaderChain(cells, 0, LocateFuel) :
        /\ Word16(Get(cells, TRUE, a, <<0, 0>>)) = key
        /\ Lt32(Get(cells, TRUE, a + OffCount, <<0, 0, 0, 0>>), U32(EEPROM_MAX_WRITES))}

\* C21: between operations at most one entry of the header chain scanned
\* from address 0 carries a given key together with a count below the
\* limit: the device never holds two live copies of a key.
C21_OneLiveCopy ==
    \A m \in Mgrs : Cardinality(LiveCopies(EEPROM, KEY(m))) <= 1

\* begin() up to the return of locate(): the manager with its candidate
\* address, and what locate() said.
beginScan(s, cells, bgn, n) ==
    LET s1  == initialise(s, n)
        loc == locate(s1, cells, bgn)
    IN  [s |-> [s1 EXCEPT !.ADDRESS = loc.ADDRESS], found |-> loc.validSpace = 1]

\* begin() from the return of locate(): read() of the entry found, or
\* write() of a new one at the candidate address.
beginStore(s, d, bgn, n, found) ==
    IF found
    THEN [s |-> read(s, d.cell, bgn, n), d |-> d]
    ELSE [s |-> s, d |-> write(s, d, bgn, n)]

\* Two managers whose calls are not serialised (two tasks): another task
\* may run between the scan of a begin() and the read() or write() that
\* follows it.  A call that starts while another manager's call is under
\* way is remembered as raced.
Busy(m) == mgr[m].pending # ""

ConstructScan(m) ==
    /\ ~mgr[m].constructed
    /\ \E r \in {beginScan(Constructed(m), EEPROM, begun, sizeofT[m])} :
           /\ mgr' = [mgr EXCEPT ![m] =
                        [r.s EXCEPT !.pending = IF r.found THEN "read" ELSE "write"]]
           /\ lastOp' = [NoOp EXCEPT !.op = "scan", !.m = m, !.found = r.found]
    /\ hist' = [hist EXCEPT ![m].raced = @ \/ Busy(Other(m))]
    /\ UNCHANGED <<EEPROM, begun, wear>>
    /\ Fixed
    /\ Counted

SynchroniseScan(m) ==
    /\ mgr[m].constructed /\ ~Busy(m)
    /\ board = "FLASH"
    /\ \E r \in {beginScan(mgr[m], EEPROM, TRUE, sizeofT[m])} :
           /\ mgr' = [mgr EXCEPT ![m] =
                        [r.s EXCEPT !.pending = IF r.found THEN "read" ELSE "write"]]
           /\ lastOp' = [NoOp EXCEPT !.op = "scan", !.m = m, !.found = r.found]
    /\ hist' = [hist EXCEPT ![m].raced = @ \/ Busy(Other(m))]
    /\ begun' = TRUE
    /\ UNCHANGED <<EEPROM, wear>>
    /\ Fixed
    /\ Counted

Store(m) ==
    /\ Busy(m)
    /\ \E r \in {beginStore(mgr[m], Device(EEPROM), begun, sizeofT[m],
                            mgr[m].pending = "read")} :
           /\ mgr' = [mgr EXCEPT ![m] =
                        [r.s EXCEPT !.pending = "",
                                    !.begun = (board = "AVR" \/ begun)]]
           /\ EEPROM' = r.d.cell
           /\ lastOp' = [NoOp EXCEPT !.op = "store", !.m = m,
                                     !.found = (mgr[m].pending = "read"),
                                     !.puts = PutCells(r.d.log)]
           /\ hist' = [hist EXCEPT ![m] = Wrote(@, r.s, r.d)]
           /\ wear' = Worn(wear, r.d)
    /\ UNCHANGED begun
    /\ Fixed
    /\ Counted

NextRace ==
    \E m \in AllMgrs : ConstructScan(m) \/ SynchroniseScan(m) \/ Store(m)

SpecRace == InitShared /\ [][NextRace]_vars

\* Both managers have completed begin() on the started device.
BothPlaced == \A m \in AllMgrs : Ready(m) /\ ~Busy(m)

\* C22: when every construction (and synchronise()) runs to completion
\* before the next call starts, two managers never choose the same address:
\* each holds its own key at its own address and the two entries do not
\* overlap.  (That interleaved calls do reach the collision is the
\* witness.)
C22_SerializedConstructionIsSafe ==
    (BothPlaced /\ \A m \in AllMgrs : ~hist[m].raced)
    => /\ mgr[1].ADDRESS # mgr[2].ADDRESS
       /\ Range(1) \cap Range(2) = {}
       /\ \A m \in AllMgrs : StoredKey(EEPROM, mgr[m].ADDRESS) = KEY(m)

\* C22 witness: with the scans of the two constructions interleaved, both
\* managers have chosen address 0 and the entry of the second manager has
\* overwritten that of the first.
C22_Witness ==
    /\ BothPlaced
    /\ \E m \in AllMgrs : hist[m].raced
    /\ mgr[1].ADDRESS = 0 /\ mgr[2].ADDRESS = 0
    /\ StoredKey(EEPROM, 0) = KEY(2)
    /\ StoredData(EEPROM, 0, sizeofT[2]) = mgr[2].MEMORY

\* The step is an update() of manager m, ready and with its entry inside
\* the device before and after.
UpdateStep(m) ==
    /\ lastOp'.m = m /\ lastOp'.op = "update"
    /\ Inside(mgr[m].ADDRESS, sizeofT[m])
    /\ Inside(mgr'[m].ADDRESS, sizeofT[m])

\* After the step the active entry holds the manager's key, a live count
\* and the bound record: the changed record has been stored.
StoredAfter(m) ==
    /\ StoredKey(EEPROM', mgr'[m].ADDRESS) = KEY(m)
    /\ Lt32(StoredCount(EEPROM', mgr'[m].ADDRESS), U32(EEPROM_MAX_WRITES))
    /\ StoredData(EEPROM', mgr'[m].ADDRESS, sizeofT[m]) = mgr'[m].MEMORY

RECURSIVE Walk(_, _, _, _, _)
Walk(a, key, cells, length, fuel) ==
    IF ~(a < length) \/ fuel = 0
    THEN [ADDRESS |-> a, found |-> FALSE]
    ELSE LET at(i)  == IF (a + i) \in DOMAIN cells THEN cells[a + i] ELSE 255
             hKey   == Word16(<<at(0), at(1)>>)
             hCount == <<at(OffCount), at(OffCount + 1), at(OffCount + 2), at(OffCount + 3)>>
             hLen   == Word16(<<at(OffLength), at(OffLength + 1)>>)
         IN  IF crc8(Bytes16(hKey), 1) # at(OffCRC8)
             THEN [ADDRESS |-> a, found |-> FALSE]
             ELSE IF hKey = key /\ Lt32(hCount, U32(EEPROM_MAX_WRITES))
             THEN [ADDRESS |-> a, found |-> TRUE]
             ELSE Walk(a + HeaderSize + hLen, key, cells, length, fuel - 1)

\* C24: when locate() has returned, its found flag and the manager's
\* candidate address are those of the walk from the address it started at,
\* for every device content.
C24_LocateIsWalk ==
    \A m \in Mgrs :
        (lastOp.op = "locate" /\ lastOp.m = m /\ lastOp.branch # "loop")
        => LET w == Walk(lastOp.from, mgr[m].ENTRY_KEY, EEPROM, Length(begun), LocateFuel)
           IN  lastOp.found = w.found /\ mgr[m].ADDRESS = w.ADDRESS

\* C25: an update() that writes without relocating (it returns the
\* incremented count) changes only the write_count, payload and checksum
\* bytes of the active entry: the active address, the entry's key, key
\* check and length bytes and every byte outside the entry are unchanged.
C25_UpdateFrame ==
    [][\A m \in Mgrs :
         (lastOp'.m = m /\ lastOp'.op = "update" /\ lastOp'.branch = "counted")
         => LET a == mgr[m].ADDRESS
                n == sizeofT[m]
            IN  /\ mgr'[m].ADDRESS = a
                /\ \A c \in DOMAIN EEPROM :
                     EEPROM'[c] # EEPROM[c]
                     => \/ c \in (a + OffCount)..(a + OffLength - 1)
                        \/ c \in (a + OffData)..(a + HeaderSize + n - 1)]_vars

\* C26: after a relocation from address a to another address, the old
\* copy at a keeps write_count = max_writes, no later update(), force() or
\* reset() of the manager writes a byte of the old entry's range, and a
\* scan from address 0 does not stop at it.
C26_OldCopyOrphaned ==
    [][\A m \in Mgrs :
         (lastOp'.m = m /\ lastOp'.op \in {"update", "force", "reset"})
         => \A a \in hist'[m].old :
              /\ StoredCount(EEPROM', a) = U32(EEPROM_MAX_WRITES)
              /\ a \in hist[m].old
                   => \A c \in DOMAIN EEPROM \cap a..(a + HeaderSize + sizeofT[m] - 1) :
                        EEPROM'[c] = EEPROM[c] /\ c \notin lastOp'.puts
              /\ locateFrom(0, KEY(m), EEPROM', TRUE, LocateFuel).ADDRESS # a]_vars

\* C27: every device write made by construction, synchronise(), update(),
\* force(), reset() and wipe() is at an address below the device length:
\* no call issues a put that reaches a cell at or past EEPROM.length().
C27_AccessInsideDevice ==
    lastOp.op \in {"construct", "synchronise", "update", "force", "reset", "wipe"}
    => lastOp.out = {}

\* C28: after every completed construction, synchronise(), update(),
\* force(), reset() and wipe(), the checksum stored in the active entry is
\* checksum32 of the payload bytes stored in that entry.
C28_StoredChecksumMatches ==
    \A m \in Mgrs :
        ( /\ lastOp.m = m
          /\ lastOp.op \in {"construct", "synchronise", "update", "force", "reset", "wipe"}
          /\ Ready(m) /\ Inside(mgr[m].ADDRESS, sizeofT[m])
          /\ StoredKey(EEPROM, mgr[m].ADDRESS) = KEY(m) )
        => StoredCRC32(EEPROM, mgr[m].ADDRESS, sizeofT[m])
             = crc32(StoredData(EEPROM, mgr[m].ADDRESS, sizeofT[m]), sizeofT[m])

\* A sketch with one manager that constructs, updates, forces and wipes
\* (and synchronises in the flash builds), on the scenario device.
NextSingle ==
    \/ \E m \in Mgrs : Construct(m)
    \/ \E m \in Mgrs, f \in RecordFills : Mutate(m, f)
    \/ \E m \in Mgrs : Update(m)
    \/ \E m \in Mgrs : Force(m)
    \/ \E m \in Mgrs : Wipe(m)
    \/ \E m \in Mgrs : Synchronise(m)
    \/ Restart

SpecSingle == InitScenario /\ [][NextSingle]_vars

\* C29: for a single manager, after any sequence of construction,
\* update(), force() and wipe() in which update() has not returned
\* 0xFFFFFFFF, a scan for the bound key started from address 0 reports
\* found at exactly the manager's active address.
C29_ScanFindsActiveEntry ==
    \A m \in Mgrs :
        (Ready(m) /\ ~hist[m].exhausted)
        => LET r == locateFrom(0, KEY(m), EEPROM, TRUE, LocateFuel)
           IN  r.validSpace = 1 /\ r.ADDRESS = mgr[m].ADDRESS

\* Two sketches' managers on one device, every call run to completion:
\* the calls of SpecShared and force().
NextPair ==
    \/ NextShared
    \/ \E m \in AllMgrs : Force(m)

SpecPair == InitShared /\ [][NextPair]_vars

\* C30: with all calls serialised, no update() or force() of one manager
\* changes a byte inside the active entry of the other manager (an entry
\* with the other's key, inside the device, at the other's address).
C30_OtherEntryUntouched ==
    [][\A m \in AllMgrs :
         ( /\ lastOp'.m = m /\ lastOp'.op \in {"update", "force"}
           /\ Ready(Other(m))
           /\ Inside(mgr[Other(m)].ADDRESS, sizeofT[Other(m)])
           /\ StoredKey(EEPROM, mgr[Other(m)].ADDRESS) = KEY(Other(m)) )
         => \A c \in Range(Other(m)) : EEPROM'[c] = EEPROM[c]]_vars

\* C31: a construction or a synchronise() whose locate() reports a live
\* entry for the bound key puts nothing and changes no device byte:
\* restarting the program over an existing entry costs no write.
C31_FoundEntryCostsNoWrite ==
    [][\A m \in Mgrs :
         ( /\ lastOp'.m = m /\ lastOp'.op \in {"construct", "synchronise"}
           /\ lastOp'.found )
         => (EEPROM' = EEPROM /\ lastOp'.puts = {})]_vars

\* A manager constructed after a power cycle found its entry, written twice
\* by the previous run, and loaded the count 2 from it.
C31_Witness ==
    \E m \in Mgrs :
        /\ lastOp.m = m /\ lastOp.op = "construct" /\ lastOp.found
        /\ Ready(m)
        /\ mgr[m].ENTRY_WRITE_COUNT = U32(2)
        /\ StoredKey(EEPROM, mgr[m].ADDRESS) = KEY(m)

====
